---- MODULE Spec2Model ----
(***************************************************************************)
(* Model of the serverless gateway adapter (createRequestHandler,          *)
(* createRemixRequest, sendRemixResponse), the cookie codec                *)
(* (createCookieFactory, encodeCookieValue, decodeCookieValue, encodeData, *)
(* decodeData) and the documentation/discussion sync script.               *)
(*                                                                         *)
(* Text is a sequence of UTF-16 code units (integers); a byte string is a  *)
(* sequence of integers below 256.                                         *)
(***************************************************************************)
EXTENDS Integers, Sequences, FiniteSets, TLC

(***************************************************************************)
(* Text helpers                                                            *)
(***************************************************************************)

RECURSIVE Concat(_)
\* The concatenation of a sequence of texts.
Concat(ss) ==
  IF ss = <<>> THEN <<>> ELSE Head(ss) \o Concat(Tail(ss))

RECURSIVE SplitOn(_, _)
\* String.prototype.split on a one-character separator.
SplitOn(s, c) ==
  IF \A i \in 1..Len(s) : s[i] # c THEN <<s>>
  ELSE LET i == CHOOSE k \in 1..Len(s) : s[k] = c /\ \A j \in 1..(k - 1) : s[j] # c
       IN <<SubSeq(s, 1, i - 1)>> \o SplitOn(SubSeq(s, i + 1, Len(s)), c)

RECURSIVE TrimLeft(_)
TrimLeft(s) ==
  IF s # <<>> /\ s[1] = 32 THEN TrimLeft(Tail(s)) ELSE s

RECURSIVE TrimRight(_)
TrimRight(s) ==
  IF s # <<>> /\ s[Len(s)] = 32 THEN TrimRight(SubSeq(s, 1, Len(s) - 1)) ELSE s

\* String.prototype.trim (spaces only: the inputs hold no other white space).
Trim(s) == TrimRight(TrimLeft(s))

\* String.prototype.indexOf for one character, 1-based; 0 when absent.
IndexOf(s, c) ==
  IF \A i \in 1..Len(s) : s[i] # c THEN 0
  ELSE CHOOSE k \in 1..Len(s) : s[k] = c /\ \A j \in 1..(k - 1) : s[j] # c

\* String.prototype.lastIndexOf for one character, 1-based; 0 when absent.
LastIndexOf(s, c) ==
  IF \A i \in 1..Len(s) : s[i] # c THEN 0
  ELSE CHOOSE k \in 1..Len(s) : s[k] = c /\ \A j \in (k + 1)..Len(s) : s[j] # c

\* The upper-case hexadecimal digit of d in 0..15.
HexChar(d) == IF d < 10 THEN 48 + d ELSE 55 + d

IsHex(c) == (c >= 48 /\ c <= 57) \/ (c >= 65 /\ c <= 70) \/ (c >= 97 /\ c <= 102)

HexVal(c) ==
  IF c <= 57 THEN c - 48 ELSE IF c <= 70 THEN c - 55 ELSE c - 87

(***************************************************************************)
(* Base64 (btoa / atob / Buffer "base64")                                  *)
(***************************************************************************)

\* The character of the base64 alphabet A-Za-z0-9+/ for v in 0..63.
B64Char(v) ==
  IF v < 26 THEN 65 + v
  ELSE IF v < 52 THEN 71 + v
  ELSE IF v < 62 THEN v - 4
  ELSE IF v = 62 THEN 43 ELSE 47

IsB64Char(c) ==
  \/ (c >= 65 /\ c <= 90)
  \/ (c >= 97 /\ c <= 122)
  \/ (c >= 48 /\ c <= 57)
  \/ c = 43
  \/ c = 47

B64Val(c) ==
  IF c >= 65 /\ c <= 90 THEN c - 65
  ELSE IF c >= 97 /\ c <= 122 THEN c - 71
  ELSE IF c >= 48 /\ c <= 57 THEN c + 4
  ELSE IF c = 43 THEN 62 ELSE 63

RECURSIVE Base64Encode(_)
\* The padded base64 text of a byte string.
Base64Encode(b) ==
  IF b = <<>> THEN <<>>
  ELSE IF Len(b) = 1 THEN
    <<B64Char(b[1] \div 4), B64Char((b[1] % 4) * 16), 61, 61>>
  ELSE IF Len(b) = 2 THEN
    <<B64Char(b[1] \div 4),
      B64Char((b[1] % 4) * 16 + b[2] \div 16),
      B64Char((b[2] % 16) * 4), 61>>
  ELSE
    <<B64Char(b[1] \div 4),
      B64Char((b[1] % 4) * 16 + b[2] \div 16),
      B64Char((b[2] % 16) * 4 + b[3] \div 64),
      B64Char(b[3] % 64)>> \o Base64Encode(SubSeq(b, 4, Len(b)))

RECURSIVE Base64DecodeGroups(_)
\* The bytes of a text of alphabet characters only (no padding); a trailing
\* group of two or three characters gives one or two bytes, a single one none.
Base64DecodeGroups(s) ==
  IF Len(s) < 2 THEN <<>>
  ELSE LET a == B64Val(s[1])
           b == B64Val(s[2])
       IN IF Len(s) = 2 THEN <<a * 4 + b \div 16>>
          ELSE LET c == B64Val(s[3])
               IN IF Len(s) = 3 THEN <<a * 4 + b \div 16, (b % 16) * 16 + c \div 4>>
                  ELSE <<a * 4 + b \div 16,
                         (b % 16) * 16 + c \div 4,
                         (c % 4) * 64 + B64Val(s[4])>>
                       \o Base64DecodeGroups(SubSeq(s, 5, Len(s)))

\* The text without the characters outside the base64 alphabet.
OnlyB64(s) == SelectSeq(s, IsB64Char)

\* Buffer.from(text, "base64"): characters outside the alphabet are skipped.
BufferFromBase64(s) == Base64DecodeGroups(OnlyB64(s))

\* The text with up to two trailing "=" removed when its length is a
\* multiple of four (the first step of the standard atob).
StripPadding(s) ==
  IF Len(s) % 4 = 0 /\ Len(s) > 0 /\ s[Len(s)] = 61
  THEN IF s[Len(s) - 1] = 61 THEN SubSeq(s, 1, Len(s) - 2) ELSE SubSeq(s, 1, Len(s) - 1)
  ELSE s

(***************************************************************************)
(* The runtime's globals btoa and atob.  The codec calls whatever the      *)
(* runtime installs: the standard functions ("native": btoa rejects a code *)
(* unit above 255, atob rejects malformed input) or the Buffer-based ones  *)
(* ("buffer": btoa keeps the low byte of every code unit, atob skips what  *)
(* is not in the alphabet).  A text result is [ok, s]; ok = FALSE is a     *)
(* thrown exception.                                                       *)
(***************************************************************************)

Runtimes == {"native", "buffer"}

Ok(s) == [ok |-> TRUE, s |-> s]

Thrown == [ok |-> FALSE, s |-> <<>>]

btoa(rt, s) ==
  IF rt = "native"
  THEN IF \E i \in 1..Len(s) : s[i] > 255 THEN Thrown ELSE Ok(Base64Encode(s))
  ELSE Ok(Base64Encode([i \in 1..Len(s) |-> s[i] % 256]))

atob(rt, s) ==
  IF rt = "native"
  THEN LET t == StripPadding(s)
       IN IF Len(t) % 4 = 1 \/ \E i \in 1..Len(t) : ~IsB64Char(t[i])
          THEN Thrown
          ELSE Ok(Base64DecodeGroups(t))
  ELSE Ok(BufferFromBase64(s))

(***************************************************************************)
(* JSON.  A value is [t, s, n]: a string (t = "str", its text in s), null, *)
(* a boolean (n = 1 for true), a non-negative integer, or the empty        *)
(* object {}.  t = "error" is JSON.parse's SyntaxError.                    *)
(***************************************************************************)

JStr(s) == [t |-> "str", s |-> s, n |-> 0]

JNull == [t |-> "null", s |-> <<>>, n |-> 0]

JBool(b) == [t |-> "bool", s |-> <<>>, n |-> IF b THEN 1 ELSE 0]

JNum(n) == [t |-> "num", s |-> <<>>, n |-> n]

JEmptyObject == [t |-> "obj", s |-> <<>>, n |-> 0]

JError == [t |-> "error", s |-> <<>>, n |-> 0]

RECURSIVE Digits(_)
\* The decimal text of a non-negative integer.
Digits(n) ==
  IF n < 10 THEN <<48 + n>> ELSE Digits(n \div 10) \o <<48 + (n % 10)>>

\* JSON.stringify's quoting of one code unit inside a string.
QuoteChar(c) ==
  IF c = 34 THEN <<92, 34>>
  ELSE IF c = 92 THEN <<92, 92>>
  ELSE IF c = 10 THEN <<92, 110>>
  ELSE IF c < 32 THEN <<92, 117, 48, 48, HexChar(c \div 16) , HexChar(c % 16)>>
  ELSE <<c>>

\* JSON.stringify(value).
JsonStringify(v) ==
  IF v.t = "str" THEN <<34>> \o Concat([i \in 1..Len(v.s) |-> QuoteChar(v.s[i])]) \o <<34>>
  ELSE IF v.t = "null" THEN <<110, 117, 108, 108>>
  ELSE IF v.t = "bool" THEN
    IF v.n = 1 THEN <<116, 114, 117, 101>> ELSE <<102, 97, 108, 115, 101>>
  ELSE IF v.t = "num" THEN Digits(v.n)
  ELSE <<123, 125>>

RECURSIVE UnquoteChars(_)
\* The text of the inside of a JSON string literal, as [ok, s]; not ok for
\* a raw quote, a raw control character or a malformed escape.
UnquoteChars(s) ==
  IF s = <<>> THEN Ok(<<>>)
  ELSE IF s[1] = 34 \/ s[1] < 32 THEN Thrown
  ELSE IF s[1] # 92 THEN
    LET r == UnquoteChars(Tail(s))
    IN IF r.ok THEN Ok(<<s[1]>> \o r.s) ELSE Thrown
  ELSE IF Len(s) < 2 THEN Thrown
  ELSE IF s[2] \in {34, 92, 47} THEN
    LET r == UnquoteChars(SubSeq(s, 3, Len(s)))
    IN IF r.ok THEN Ok(<<s[2]>> \o r.s) ELSE Thrown
  ELSE IF s[2] = 110 THEN
    LET r == UnquoteChars(SubSeq(s, 3, Len(s)))
    IN IF r.ok THEN Ok(<<10>> \o r.s) ELSE Thrown
  ELSE IF s[2] = 117 /\ Len(s) >= 6 /\ \A i \in 3..6 : IsHex(s[i]) THEN
    LET r == UnquoteChars(SubSeq(s, 7, Len(s)))
        c == HexVal(s[3]) * 4096 + HexVal(s[4]) * 256 + HexVal(s[5]) * 16 + HexVal(s[6])
    IN IF r.ok THEN Ok(<<c>> \o r.s) ELSE Thrown
  ELSE Thrown

RECURSIVE DigitsValue(_)
DigitsValue(s) ==
  IF s = <<>> THEN 0 ELSE DigitsValue(SubSeq(s, 1, Len(s) - 1)) * 10 + (s[Len(s)] - 48)

\* JSON.parse(text) for the values above.
JsonParse(s) ==
  IF s = <<110, 117, 108, 108>> THEN JNull
  ELSE IF s = <<116, 114, 117, 101>> THEN JBool(TRUE)
  ELSE IF s = <<102, 97, 108, 115, 101>> THEN JBool(FALSE)
  ELSE IF s = <<123, 125>> THEN JEmptyObject
  ELSE IF /\ s # <<>>
          /\ \A i \in 1..Len(s) : s[i] >= 48 /\ s[i] <= 57
          /\ (Len(s) = 1 \/ s[1] # 48)
    THEN JNum(DigitsValue(s))
  ELSE IF Len(s) >= 2 /\ s[1] = 34 /\ s[Len(s)] = 34 THEN
    LET r == UnquoteChars(SubSeq(s, 2, Len(s) - 1))
    IN IF r.ok THEN JStr(r.s) ELSE JError
  ELSE JError

(***************************************************************************)
(* encodeURIComponent / decodeURIComponent, as the cookie library uses     *)
(* them on a cookie's value (code units below 2048).                       *)
(***************************************************************************)

\* A-Z a-z 0-9 - _ . ! ~ * ' ( )
IsUnreserved(c) ==
  \/ (c >= 65 /\ c <= 90)
  \/ (c >= 97 /\ c <= 122)
  \/ (c >= 48 /\ c <= 57)
  \/ c \in {45, 95, 46, 33, 126, 42, 39, 40, 41}

PercentByte(b) == <<37, HexChar(b \div 16), HexChar(b % 16)>>

EncodeURIChar(c) ==
  IF IsUnreserved(c) THEN <<c>>
  ELSE IF c < 128 THEN PercentByte(c)
  ELSE PercentByte(192 + c \div 64) \o PercentByte(128 + (c % 64))

encodeURIComponent(s) == Concat([i \in 1..Len(s) |-> EncodeURIChar(s[i])])

\* Whether s starts with a well-formed %XX.
HasPercentByte(s) == Len(s) >= 3 /\ s[1] = 37 /\ IsHex(s[2]) /\ IsHex(s[3])

PercentValue(s) == HexVal(s[2]) * 16 + HexVal(s[3])

RECURSIVE decodeURIComponent(_)
\* [ok, s]; not ok is the URIError of a malformed escape.
decodeURIComponent(s) ==
  IF s = <<>> THEN Ok(<<>>)
  ELSE IF s[1] # 37 THEN
    LET r == decodeURIComponent(Tail(s))
    IN IF r.ok THEN Ok(<<s[1]>> \o r.s) ELSE Thrown
  ELSE IF ~HasPercentByte(s) THEN Thrown
  ELSE LET b == PercentValue(s)
           rest == SubSeq(s, 4, Len(s))
       IN IF b < 128 THEN
            LET r == decodeURIComponent(rest)
            IN IF r.ok THEN Ok(<<b>> \o r.s) ELSE Thrown
          ELSE IF /\ b >= 194 /\ b < 224
                  /\ HasPercentByte(rest)
                  /\ PercentValue(rest) >= 128 /\ PercentValue(rest) < 192 THEN
            LET r == decodeURIComponent(SubSeq(rest, 4, Len(rest)))
            IN IF r.ok THEN Ok(<<(b - 192) * 64 + PercentValue(rest) - 128>> \o r.s)
               ELSE Thrown
          ELSE Thrown

(***************************************************************************)
(* The cookie library's serialize and parse, as the codec calls them.      *)
(***************************************************************************)

\* "; Path=/": the attribute serialize adds for the default option path "/".
PathAttribute == <<59, 32, 80, 97, 116, 104, 61, 47>>

\* serialize(name, val, options) with options = {path: "/"}.
serialize(name, val) == name \o <<61>> \o encodeURIComponent(val) \o PathAttribute

\* The value of one pair: quotes stripped, then decoded; a value that does
\* not decode is kept as it is (the library's tryDecode).
PairValue(raw) ==
  LET v == IF raw # <<>> /\ raw[1] = 34 THEN SubSeq(raw, 2, Len(raw) - 1) ELSE raw
      d == decodeURIComponent(v)
  IN IF d.ok THEN d.s ELSE v

\* parse(str): the name/value pairs of a Cookie header, in order.  A piece
\* without "=" is skipped.
parse(str) ==
  LET pieces == SplitOn(str, 59)
      withEq == SelectSeq(pieces, LAMBDA p : IndexOf(p, 61) > 0)
  IN [i \in 1..Len(withEq) |->
        LET p == withEq[i]
            eq == IndexOf(p, 61)
        IN [key |-> Trim(SubSeq(p, 1, eq - 1)),
            val |-> PairValue(Trim(SubSeq(p, eq + 1, Len(p))))]]

\* name in cookies
HasCookie(cookies, name) == \E i \in 1..Len(cookies) : cookies[i].key = name

\* cookies[name]: the first pair of that name (later ones do not overwrite).
CookieOf(cookies, name) ==
  LET i == CHOOSE k \in 1..Len(cookies) :
             cookies[k].key = name /\ \A j \in 1..(k - 1) : cookies[j].key # name
  IN cookies[i].val

(***************************************************************************)
(* The signature primitive (./crypto): sign appends "." and a keyed digest *)
(* of the data; unsign gives the data back when the digest is the one the  *)
(* secret produces, and false (ok = FALSE) otherwise.                      *)
(***************************************************************************)

RECURSIVE Sum(_)
Sum(s) == IF s = <<>> THEN 0 ELSE Head(s) + Sum(Tail(s))

Digest(data, secret) ==
  <<B64Char((Sum(data) + 7 * Sum(secret)) % 64), B64Char((Len(data) + Sum(secret)) % 64)>>

sign(data, secret) == data \o <<46>> \o Digest(data, secret)

unsign(signed, secret) ==
  LET i == LastIndexOf(signed, 46)
      data == SubSeq(signed, 1, i - 1)
  IN IF i > 0 /\ sign(data, secret) = signed THEN Ok(data) ELSE Thrown

(***************************************************************************)
(* The cookie codec                                                        *)
(***************************************************************************)

\* encodeData(value): [ok, s]; not ok when btoa throws.
encodeData(rt, value) == btoa(rt, JsonStringify(value))

\* A decodeData whose failures are not caught.
decodeDataUncaught(rt, value) ==
  LET a == atob(rt, value)
  IN IF a.ok THEN JsonParse(a.s) ELSE JError

\* decodeData(value): any failure of atob or JSON.parse gives {}.
decodeData(rt, value) ==
  LET a == atob(rt, value)
      v == IF a.ok THEN JsonParse(a.s) ELSE JError
  IN IF v.t = "error" THEN JEmptyObject ELSE v

\* encodeCookieValue(sign, value, secrets): [ok, s, signCalls], signCalls
\* being the secrets sign was called with, in order.
encodeCookieValue(rt, value, secrets) ==
  LET encoded == encodeData(rt, value)
  IN IF ~encoded.ok THEN [ok |-> FALSE, s |-> <<>>, signCalls |-> <<>>]
     ELSE IF Len(secrets) > 0
       THEN [ok |-> TRUE, s |-> sign(encoded.s, secrets[1]), signCalls |-> <<secrets[1]>>]
       ELSE [ok |-> TRUE, s |-> encoded.s, signCalls |-> <<>>]

RECURSIVE UnsignWithEach(_, _, _)
\* The loop of decodeCookieValue over the secrets, in list order.
UnsignWithEach(rt, value, secrets) ==
  IF secrets = <<>> THEN JNull
  ELSE LET unsignedValue == unsign(value, Head(secrets))
       IN IF unsignedValue.ok THEN decodeData(rt, unsignedValue.s)
          ELSE UnsignWithEach(rt, value, Tail(secrets))

\* decodeCookieValue(unsign, value, secrets).
decodeCookieValue(rt, value, secrets) ==
  IF Len(secrets) > 0 THEN UnsignWithEach(rt, value, secrets)
  ELSE decodeData(rt, value)

\* cookie.parse(cookieHeader): header is [present, s] (absent: null).
CookieParse(rt, cookie, header) ==
  IF ~header.present \/ header.s = <<>> THEN JNull
  ELSE LET cookies == parse(header.s)
       IN IF HasCookie(cookies, cookie.name)
          THEN IF CookieOf(cookies, cookie.name) = <<>> THEN JStr(<<>>)
               ELSE decodeCookieValue(rt, CookieOf(cookies, cookie.name), cookie.secrets)
          ELSE JNull

\* cookie.serialize(value): [ok, s, signCalls].
CookieSerialize(rt, cookie, value) ==
  IF value = JStr(<<>>)
  THEN [ok |-> TRUE, s |-> serialize(cookie.name, <<>>), signCalls |-> <<>>]
  ELSE LET e == encodeCookieValue(rt, value, cookie.secrets)
       IN IF e.ok
          THEN [ok |-> TRUE, s |-> serialize(cookie.name, e.s), signCalls |-> e.signCalls]
          ELSE [ok |-> FALSE, s |-> <<>>, signCalls |-> <<>>]

(***************************************************************************)
(* Gateway adapter: header collections.  Header names and values are       *)
(* strings.  A Headers object is a sequence of entries [key, values]: the  *)
(* name as first given and the values appended under it; names are looked  *)
(* up without regard to case.                                              *)
(***************************************************************************)

\* String.prototype.toLowerCase on the header names in use.
ToLower(name) ==
  CASE name \in {"Set-Cookie", "SET-COOKIE"} -> "set-cookie"
    [] name = "Content-Type" -> "content-type"
    [] name = "Connection" -> "connection"
    [] name = "Cookie" -> "cookie"
    [] OTHER -> name

RECURSIVE JoinStr(_, _)
\* Array.prototype.join on strings.
JoinStr(ss, sep) ==
  IF ss = <<>> THEN ""
  ELSE IF Len(ss) = 1 THEN ss[1]
  ELSE ss[1] \o sep \o JoinStr(Tail(ss), sep)

\* The index of the entry for a name; 0 when there is none.
HFind(h, name) ==
  IF \E i \in 1..Len(h) : ToLower(h[i].key) = ToLower(name)
  THEN CHOOSE i \in 1..Len(h) : ToLower(h[i].key) = ToLower(name)
  ELSE 0

\* headers.append(name, value)
HAppend(h, name, value) ==
  LET i == HFind(h, name)
  IN IF i = 0 THEN Append(h, [key |-> name, values |-> <<value>>])
     ELSE [h EXCEPT ![i].values = Append(@, value)]

\* headers.delete(name)
HDelete(h, name) == SelectSeq(h, LAMBDA e : ToLower(e.key) # ToLower(name))

\* headers.set(name, value)
HSet(h, name, value) ==
  LET i == HFind(h, name)
  IN IF i = 0 THEN Append(h, [key |-> name, values |-> <<value>>])
     ELSE [h EXCEPT ![i].values = <<value>>]

\* headers.get(name): [present, s], the values joined with ", "; absent is null.
HGet(h, name) ==
  LET i == HFind(h, name)
  IN IF i = 0 THEN [present |-> FALSE, s |-> ""]
     ELSE [present |-> TRUE, s |-> JoinStr(h[i].values, ", ")]

\* Object.fromEntries(headers): lower-cased name -> joined value.
HFromEntries(h) ==
  [n \in {ToLower(h[i].key) : i \in 1..Len(h)} |-> HGet(h, n).s]

RECURSIVE HAppendAll(_, _)
\* The Headers object after appending the pairs of a list, in order.
HAppendAll(h, pairs) ==
  IF pairs = <<>> THEN h
  ELSE HAppendAll(HAppend(h, pairs[1].name, pairs[1].value), Tail(pairs))

(***************************************************************************)
(* Gateway adapter: bodies                                                 *)
(***************************************************************************)

RECURSIVE Utf8Decode(_)
\* Buffer.prototype.toString() / Response.text(): the text of a byte string
\* (one- and two-byte sequences; any other byte gives U+FFFD).
Utf8Decode(b) ==
  IF b = <<>> THEN <<>>
  ELSE IF b[1] < 128 THEN <<b[1]>> \o Utf8Decode(Tail(b))
  ELSE IF b[1] >= 194 /\ b[1] < 224 /\ Len(b) >= 2 /\ b[2] >= 128 /\ b[2] < 192
    THEN <<(b[1] - 192) * 64 + (b[2] - 128)>> \o Utf8Decode(SubSeq(b, 3, Len(b)))
  ELSE <<65533>> \o Utf8Decode(Tail(b))

\* The content types the platform's table lists as binary (./binaryTypes).
BinaryTypes == {"image/png", "application/octet-stream", "application/pdf"}

\* isBinaryType(contentType): contentType is [present, s].
isBinaryType(contentType) == contentType.present /\ contentType.s \in BinaryTypes

(***************************************************************************)
(* Gateway adapter: request construction                                   *)
(***************************************************************************)

\* event.headers[name]: [present, s]; an absent or empty value is falsy.
EventHeader(event, name) ==
  IF \E i \in 1..Len(event.headers) : event.headers[i].name = name
  THEN LET i == CHOOSE k \in 1..Len(event.headers) : event.headers[k].name = name
       IN [present |-> TRUE, s |-> event.headers[i].value]
  ELSE [present |-> FALSE, s |-> ""]

\* Whether an optional string, or an optional text, is truthy.
TruthyString(v) == v.present /\ v.s # ""

TruthyText(v) == v.present /\ v.s # <<>>

RECURSIVE AppendTruthy(_, _)
\* The loop of createRemixHeaders: append every header whose value is truthy.
AppendTruthy(h, pairs) ==
  IF pairs = <<>> THEN h
  ELSE AppendTruthy(
         IF pairs[1].value # "" THEN HAppend(h, pairs[1].name, pairs[1].value) ELSE h,
         Tail(pairs))

\* createRemixHeaders(requestHeaders, requestCookies)
createRemixHeaders(requestHeaders, requestCookies) ==
  LET headers == AppendTruthy(<<>>, requestHeaders)
  IN IF requestCookies.present
     THEN HAppend(headers, "Cookie", JoinStr(requestCookies.list, "; "))
     ELSE headers

\* A request body that ignores isBase64Encoded.
RequestBodyVerbatim(event) == event.body

\* The body createRemixRequest passes: event.body && event.isBase64Encoded ?
\* Buffer.from(event.body, "base64").toString() : event.body
RequestBody(event) ==
  IF TruthyText(event.body) /\ event.isBase64Encoded
  THEN [present |-> TRUE, s |-> Utf8Decode(BufferFromBase64(event.body.s))]
  ELSE event.body

\* createRemixRequest(event, abortController); signal is the controller's.
createRemixRequest(event, abortController) ==
  LET forwarded == EventHeader(event, "x-forwarded-host")
      host == IF TruthyString(forwarded) THEN forwarded.s
              ELSE IF EventHeader(event, "host").present
                THEN EventHeader(event, "host").s
              ELSE "undefined"
      search == IF event.rawQueryString # "" THEN "?" \o event.rawQueryString ELSE ""
  IN [url |-> "https://" \o host \o event.rawPath \o search,
      method |-> event.method,
      headers |-> createRemixHeaders(event.headers, event.cookies),
      body |-> RequestBody(event),
      signal |-> abortController]

(***************************************************************************)
(* Gateway adapter: response conversion                                    *)
(***************************************************************************)

\* A collection of the cookies that matches the header name exactly.
SetCookieValuesExactCase(h) ==
  Concat([i \in 1..Len(h) |-> IF h[i].key = "set-cookie" THEN h[i].values ELSE <<>>])

\* The loop over headers.raw(): the values of every entry whose lower-cased
\* key is "set-cookie", in order.
SetCookieValues(h) ==
  Concat([i \in 1..Len(h) |-> IF ToLower(h[i].key) = "set-cookie" THEN h[i].values ELSE <<>>])

\* A conversion that never marks the connection closed.
MarkClosedNever(h, aborted) == h

\* if (abortController.signal.aborted) headers.set("Connection", "close")
MarkClosed(h, aborted) == IF aborted THEN HSet(h, "Connection", "close") ELSE h

\* A conversion that reads every body as text.
EncodeBodyAsText(isBinary, bytes) ==
  [body |-> Utf8Decode(bytes), isBase64Encoded |-> FALSE]

\* The body of the result: the base64 of the bytes for a binary type, the
\* decoded text otherwise.
EncodeBody(isBinary, bytes) ==
  IF isBinary
  THEN [body |-> Base64Encode(bytes), isBase64Encoded |-> TRUE]
  ELSE [body |-> Utf8Decode(bytes), isBase64Encoded |-> FALSE]

\* sendRemixResponse up to its await of the body: the cookies, the headers
\* as left after the deletion and the Connection mark, and the body's kind.
SendHead(nodeResponse, aborted) ==
  LET cookies == SetCookieValues(nodeResponse.headers)
      h1 == IF Len(cookies) > 0 THEN HDelete(nodeResponse.headers, "Set-Cookie")
            ELSE nodeResponse.headers
      h2 == MarkClosed(h1, aborted)
  IN [cookies |-> cookies,
      headers |-> h2,
      isBinary |-> isBinaryType(HGet(h2, "Content-Type"))]

\* sendRemixResponse's result once the body has been read.
SendResult(nodeResponse, head) ==
  LET b == EncodeBody(head.isBinary, nodeResponse.bytes)
  IN [statusCode |-> nodeResponse.status,
      headers |-> HFromEntries(head.headers),
      cookies |-> head.cookies,
      body |-> b.body,
      isBase64Encoded |-> b.isBase64Encoded]

(***************************************************************************)
(* State                                                                   *)
(***************************************************************************)

VARIABLES
  runtime,      \* which btoa/atob the runtime installs
  cookie,       \* the cookie handle in use: [name, secrets]
  header,       \* the last serialize: [ok, s, signCalls]; ok = FALSE: it threw
  hdrValue,     \* the value that serialize was given
  hdrSecrets,   \* the secrets of the handle that serialized it
  parseInput,   \* the header parse was given, when it ran last: [present, s]
  parsed,       \* what that parse returned
  cookieOp,     \* the last cookie operation
  inv,          \* the adapter's invocations: i -> [pc, event, request, ...]
  aborted,      \* abort controller -> whether its signal is aborted
  controllers,  \* how many abort controllers have been created
  abortAsked,   \* the invocations whose own signal was asked to abort
  existingDiscussions,  \* the discussions fetched before the walk
  mutations,    \* the GraphQL mutations issued, in order
  files,        \* the files written: path -> the discussionUrl put in it
  lastEntry     \* the callback's last run: [ran, entry, issued, wrote, seen]

cookieVars ==
  <<runtime, cookie, header, hdrValue, hdrSecrets, parseInput, parsed, cookieOp>>

adapterVars == <<inv, aborted, controllers, abortAsked>>

syncVars == <<existingDiscussions, mutations, files, lastEntry>>

vars == <<cookieVars, adapterVars, syncVars>>

(***************************************************************************)
(* Cookie codec: inputs                                                    *)
(***************************************************************************)

\* The longest list of secrets a handle is created with.
MaxSecrets == 2

\* "n"
CookieName == <<110>>

\* "s1", "s2", "s3"
Secrets == {<<115, 49>>, <<115, 50>>, <<115, 51>>}

Range(f) == {f[i] : i \in DOMAIN f}

\* The lists of distinct secrets of at most MaxSecrets elements.
SecretLists ==
  UNION {{l \in [1..n -> Secrets] : \A i, j \in 1..n : i # j => l[i] # l[j]} :
           n \in 0..MaxSecrets}

\* "", "a\"", U+00E9 (in Latin-1), U+0141 (outside Latin-1), null, 7, {}.
CookieValues ==
  {JStr(<<>>), JStr(<<97, 34>>), JStr(<<233>>), JStr(<<321>>), JNull, JNum(7), JEmptyObject}

Present(s) == [present |-> TRUE, s |-> s]

Absent == [present |-> FALSE, s |-> <<>>]

\* Cookie headers a client may send: none, "", "m=abc", "n", "n=", "n=!",
\* "n=%zz", "n=YWJj" (base64 of abc), "n=bnVsbA%3D%3D" (of null),
\* "m=1; n=e30" (of {}), "n=YQ.AA" (a value with a wrong signature).
RequestHeaders ==
  {Absent,
   Present(<<>>),
   Present(<<109, 61, 97, 98, 99>>),
   Present(CookieName),
   Present(CookieName \o <<61>>),
   Present(CookieName \o <<61, 33>>),
   Present(CookieName \o <<61, 37, 122, 122>>),
   Present(CookieName \o <<61>> \o Base64Encode(<<97, 98, 99>>)),
   Present(CookieName \o <<61>> \o encodeURIComponent(Base64Encode(<<110, 117, 108, 108>>))),
   Present(<<109, 61, 49, 59, 32>> \o CookieName \o <<61, 101, 51, 48>>),
   Present(CookieName \o <<61, 89, 81, 46, 65, 65>>)}

NoHeader == [ok |-> FALSE, s |-> <<>>, signCalls |-> <<>>]

(***************************************************************************)
(* Gateway adapter: inputs                                                 *)
(***************************************************************************)

\* The most invocations of the adapter in flight at once.
MaxInvocations == 2

\* The most headers the handler puts on a response.
MaxHeaders == 2

Invocations == 1..MaxInvocations

AbsentText == [present |-> FALSE, s |-> <<>>]

NoCookies == [present |-> FALSE, list |-> <<>>]

\* What the platform may put in an event's body, with the bytes a base64
\* body was made from: no body, "", "hi", "aGk=" sent as plain text, and the
\* base64 of "hi", of C3 A9 (U+00E9 in UTF-8) and of FF 41 (not UTF-8).
EventBodies ==
  {[body |-> AbsentText, isBase64Encoded |-> b, payload |-> <<>>] : b \in BOOLEAN}
  \cup {[body |-> Present(<<>>), isBase64Encoded |-> TRUE, payload |-> <<>>],
        [body |-> Present(<<104, 105>>), isBase64Encoded |-> FALSE, payload |-> <<>>],
        [body |-> Present(Base64Encode(<<104, 105>>)), isBase64Encoded |-> FALSE,
         payload |-> <<>>]}
  \cup {[body |-> Present(Base64Encode(p)), isBase64Encoded |-> TRUE, payload |-> p] :
          p \in {<<104, 105>>, <<195, 169>>, <<255, 65>>}}

\* The routing part of an event: a plain one, and one with a forwarded
\* host, a header without a value, a query string and cookies.
EventRoutes ==
  {[headers |-> <<[name |-> "host", value |-> "x.test"]>>,
    cookies |-> NoCookies,
    rawPath |-> "/foo", rawQueryString |-> "", method |-> "GET"],
   [headers |-> <<[name |-> "host", value |-> "x.test"],
                  [name |-> "accept", value |-> ""],
                  [name |-> "x-forwarded-host", value |-> "app.test"]>>,
    cookies |-> [present |-> TRUE, list |-> <<"a=1", "b=2">>],
    rawPath |-> "/foo", rawQueryString |-> "a=1", method |-> "POST"]}

MakeEvent(r, b) ==
  [headers |-> r.headers, cookies |-> r.cookies, rawPath |-> r.rawPath,
   rawQueryString |-> r.rawQueryString, method |-> r.method,
   body |-> b.body, isBase64Encoded |-> b.isBase64Encoded, payload |-> b.payload]

Events == {MakeEvent(r, b) : r \in EventRoutes, b \in EventBodies}

\* The headers a handler may append to its response.
HeaderPairs ==
  {[name |-> "Set-Cookie", value |-> "a=1"],
   [name |-> "set-cookie", value |-> "b=2"],
   [name |-> "Content-Type", value |-> "image/png"],
   [name |-> "Content-Type", value |-> "text/html"],
   [name |-> "Connection", value |-> "keep-alive"]}

HeaderLists == UNION {[1..n -> HeaderPairs] : n \in 0..MaxHeaders}

\* Response bodies: "hi", and FF 00 41 (not UTF-8).
ResponseBodies == {<<104, 105>>, <<255, 0, 65>>}

\* new Response(body, {status, headers}) with the headers appended in order.
MakeResponse(status, appended, bytes) ==
  [status |-> status, appended |-> appended,
   headers |-> HAppendAll(<<>>, appended), bytes |-> bytes]

Responses == {MakeResponse(200, l, b) : l \in HeaderLists, b \in ResponseBodies}

\* The events and responses of the runs with several invocations in flight.
FewEvents == {MakeEvent(r, [body |-> AbsentText, isBase64Encoded |-> FALSE, payload |-> <<>>]) :
                r \in EventRoutes}

FewResponses ==
  {MakeResponse(200, <<>>, <<104, 105>>),
   MakeResponse(404, <<[name |-> "Connection", value |-> "keep-alive"]>>, <<>>)}

NoEvent ==
  [headers |-> <<>>, cookies |-> NoCookies, rawPath |-> "", rawQueryString |-> "",
   method |-> "", body |-> AbsentText, isBase64Encoded |-> FALSE, payload |-> <<>>]

NoRequest ==
  [url |-> "", method |-> "", headers |-> <<>>, body |-> AbsentText, signal |-> 0]

NoResponse == [status |-> 0, appended |-> <<>>, headers |-> <<>>, bytes |-> <<>>]

NoHead == [cookies |-> <<>>, headers |-> <<>>, isBinary |-> FALSE]

NoResult ==
  [statusCode |-> 0, headers |-> <<>>, cookies |-> <<>>, body |-> <<>>,
   isBase64Encoded |-> FALSE]

IdleInvocation ==
  [pc |-> "idle", event |-> NoEvent, request |-> NoRequest, response |-> NoResponse,
   sawAborted |-> FALSE, head |-> NoHead, result |-> NoResult]

(***************************************************************************)
(* Discussion sync (scripts/discussions.mjs).  A path is the sequence of   *)
(* its pieces, <<"/docs", "/a", ".md">> for /docs/a.md; an optional        *)
(* front-matter attribute is [present, s].                                 *)
(***************************************************************************)

PathString(path) == JoinStr(path, "")

\* entry.path.endsWith(".md")
EndsWithMd(path) == path[Len(path)] = ".md"

\* entry.path.replace(/^\/docs/, "")
WithoutDocsPrefix(path) ==
  IF path[1] = "/docs" THEN JoinStr(Tail(path), "") ELSE PathString(path)

\* new URL("docs/en/v1" + entry.path.replace(/.md$/), "https://remix.run"):
\* replace is given no replacement, so the extension becomes "undefined".
DocUrl(path) ==
  "https://remix.run/docs/en/v1"
    \o (IF EndsWithMd(path)
        THEN JoinStr(SubSeq(path, 1, Len(path) - 1), "") \o "undefined"
        ELSE PathString(path))

\* data.title || entry.path.replace(/^\/docs/, "")
EntryTitle(entry) ==
  IF TruthyString(entry.data.title) THEN entry.data.title.s
  ELSE WithoutDocsPrefix(entry.path)

\* discussion.node.url === data.discussionUrl
UrlMatches(node, data) == data.discussionUrl.present /\ node.url = data.discussionUrl.s

\* existingDiscussions.find(...): the index of the first match, 0 for none.
FindDiscussion(existing, data) ==
  IF \E i \in 1..Len(existing) : UrlMatches(existing[i], data)
  THEN CHOOSE i \in 1..Len(existing) :
         /\ UrlMatches(existing[i], data)
         /\ \A j \in 1..(i - 1) : ~UrlMatches(existing[j], data)
  ELSE 0

\* exists.node.title === data.title
SameTitle(node, data) == data.title.present /\ node.title = data.title.s

\* The url GitHub gives the n-th discussion of the repository.
DiscussionUrl(n) == "https://github.com/o/r/discussions/" \o ToString(n)

NoWrite == [present |-> FALSE, path |-> "", discussionUrl |-> ""]

\* The callback of findMatchingEntries on one entry, `made` discussions
\* existing on GitHub: the mutations it issues and the file it writes.
SyncEntry(entry, existing, made) ==
  IF ~EndsWithMd(entry.path) THEN [issued |-> <<>>, wrote |-> NoWrite]
  ELSE LET i == FindDiscussion(existing, entry.data)
           title == EntryTitle(entry)
       IN IF i # 0
          THEN IF SameTitle(existing[i], entry.data)
               THEN [issued |-> <<>>, wrote |-> NoWrite]
               ELSE [issued |-> <<[kind |-> "update", id |-> existing[i].id,
                                   title |-> title, body |-> "", url |-> ""]>>,
                     wrote |-> NoWrite]
          ELSE [issued |-> <<[kind |-> "create", id |-> "", title |-> title,
                              body |-> DocUrl(entry.path),
                              url |-> DiscussionUrl(made + 1)]>>,
                wrote |-> [present |-> TRUE, path |-> PathString(entry.path),
                           discussionUrl |-> DiscussionUrl(made + 1)]]

(***************************************************************************)
(* Discussion sync: inputs                                                 *)
(***************************************************************************)

\* The most entries the walk over the documentation delivers.
MaxEntries == 2

Some(s) == [present |-> TRUE, s |-> s]

None == [present |-> FALSE, s |-> ""]

\* What getExistingDiscussions may return: nothing, or two discussions, the
\* second titled after its document's path.
DiscussionLists ==
  {<<>>,
   <<[title |-> "Intro", url |-> DiscussionUrl(1), id |-> "D_1"],
     [title |-> "/b.md", url |-> DiscussionUrl(2), id |-> "D_2"]>>}

\* The entries under /docs: three files, with or without a title and a
\* discussion url in their front matter.
Entries ==
  {[path |-> p, data |-> [title |-> t, discussionUrl |-> u]] :
     p \in {<<"/docs", "/a", ".md">>, <<"/docs", "/b", ".md">>, <<"/docs", "/logo", ".png">>},
     t \in {None, Some("Intro"), Some("Guide")},
     u \in {None, Some(DiscussionUrl(1)), Some(DiscussionUrl(2))}}

NoEntry ==
  [ran |-> FALSE,
   entry |-> [path |-> <<"">>, data |-> [title |-> None, discussionUrl |-> None]],
   issued |-> <<>>, wrote |-> NoWrite, seen |-> <<>>]

(***************************************************************************)
(* Initial states.  The codec starts with a handle just created, the       *)
(* adapter with no invocation begun, the sync script with the discussions  *)
(* fetched and the walk not begun.  The parts share nothing; a part that   *)
(* is not running stays in one state.                                      *)
(***************************************************************************)

\* All parts running side by side.
Init ==
  /\ runtime \in Runtimes
  /\ cookie \in [name : {CookieName}, secrets : SecretLists]
  /\ header = NoHeader
  /\ hdrValue = JNull
  /\ hdrSecrets = <<>>
  /\ parseInput = Absent
  /\ parsed = JNull
  /\ cookieOp = "create"
  /\ inv = [i \in Invocations |-> IdleInvocation]
  /\ aborted = [c \in Invocations |-> FALSE]
  /\ controllers = 0
  /\ abortAsked = {}
  /\ existingDiscussions \in DiscussionLists
  /\ mutations = <<>>
  /\ files = <<>>
  /\ lastEntry = NoEntry

\* The cookie codec alone.
InitCookie ==
  /\ runtime \in Runtimes
  /\ cookie \in [name : {CookieName}, secrets : SecretLists]
  /\ header = NoHeader
  /\ hdrValue = JNull
  /\ hdrSecrets = <<>>
  /\ parseInput = Absent
  /\ parsed = JNull
  /\ cookieOp = "create"
  /\ inv = [i \in Invocations |-> IdleInvocation]
  /\ aborted = [c \in Invocations |-> FALSE]
  /\ controllers = 0
  /\ abortAsked = {}
  /\ existingDiscussions = <<>>
  /\ mutations = <<>>
  /\ files = <<>>
  /\ lastEntry = NoEntry

\* The adapter alone.
InitAdapter ==
  /\ runtime = "native"
  /\ cookie = [name |-> CookieName, secrets |-> <<>>]
  /\ header = NoHeader
  /\ hdrValue = JNull
  /\ hdrSecrets = <<>>
  /\ parseInput = Absent
  /\ parsed = JNull
  /\ cookieOp = "create"
  /\ inv = [i \in Invocations |-> IdleInvocation]
  /\ aborted = [c \in Invocations |-> FALSE]
  /\ controllers = 0
  /\ abortAsked = {}
  /\ existingDiscussions = <<>>
  /\ mutations = <<>>
  /\ files = <<>>
  /\ lastEntry = NoEntry

\* The discussion sync alone.
InitSync ==
  /\ runtime = "native"
  /\ cookie = [name |-> CookieName, secrets |-> <<>>]
  /\ header = NoHeader
  /\ hdrValue = JNull
  /\ hdrSecrets = <<>>
  /\ parseInput = Absent
  /\ parsed = JNull
  /\ cookieOp = "create"
  /\ inv = [i \in Invocations |-> IdleInvocation]
  /\ aborted = [c \in Invocations |-> FALSE]
  /\ controllers = 0
  /\ abortAsked = {}
  /\ existingDiscussions \in DiscussionLists
  /\ mutations = <<>>
  /\ files = <<>>
  /\ lastEntry = NoEntry

(***************************************************************************)
(* Cookie codec: operations                                                *)
(***************************************************************************)

\* createCookie(name, {secrets}): the application makes another handle, as
\* it does when it rotates its secrets.  Headers already sent stay around.
CreateCookie(secrets) ==
  /\ cookie' = [name |-> CookieName, secrets |-> secrets]
  /\ cookieOp' = "create"
  /\ parseInput' = Absent
  /\ parsed' = JNull
  /\ UNCHANGED <<runtime, header, hdrValue, hdrSecrets>>
  /\ UNCHANGED <<adapterVars, syncVars>>

\* cookie.serialize(value)
Serialize(value) ==
  /\ header' = CookieSerialize(runtime, cookie, value)
  /\ hdrValue' = value
  /\ hdrSecrets' = cookie.secrets
  /\ cookieOp' = "serialize"
  /\ parseInput' = Absent
  /\ parsed' = JNull
  /\ UNCHANGED <<runtime, cookie>>
  /\ UNCHANGED <<adapterVars, syncVars>>

\* cookie.parse(h) of the header the last serialize produced.
ParseSerialized ==
  /\ header.ok
  /\ parseInput' = Present(header.s)
  /\ parsed' = CookieParse(runtime, cookie, Present(header.s))
  /\ cookieOp' = "parseSerialized"
  /\ UNCHANGED <<runtime, cookie, header, hdrValue, hdrSecrets>>
  /\ UNCHANGED <<adapterVars, syncVars>>

\* cookie.parse(h) of a header a client sent.
ParseRequest(h) ==
  /\ parseInput' = h
  /\ parsed' = CookieParse(runtime, cookie, h)
  /\ cookieOp' = "parseRequest"
  /\ UNCHANGED <<runtime, cookie, header, hdrValue, hdrSecrets>>
  /\ UNCHANGED <<adapterVars, syncVars>>

NextCookie ==
  \/ \E secrets \in SecretLists : CreateCookie(secrets)
  \/ \E value \in CookieValues : Serialize(value)
  \/ ParseSerialized
  \/ \E h \in RequestHeaders : ParseRequest(h)

(***************************************************************************)
(* Gateway adapter: operations.  An invocation of the function that        *)
(* createRequestHandler returns runs from one await to the next; other     *)
(* invocations, and an abort of a signal, may come in between.             *)
(***************************************************************************)

\* An adapter with one abort controller for all its invocations.
SharedAbortController(created) == 1

\* new AbortController(): a controller no other invocation has.
NewAbortController(created) == created + 1

\* The handler is called: the controller and the request are made, and
\* handleRequest(request, loadContext) is awaited.
Invoke(i, event) ==
  /\ inv[i].pc = "idle"
  /\ LET abortController == NewAbortController(controllers)
     IN /\ controllers' = IF abortController > controllers THEN abortController
                          ELSE controllers
        /\ inv' = [inv EXCEPT ![i] =
                     [@ EXCEPT !.pc = "handling",
                               !.event = event,
                               !.request = createRemixRequest(event, abortController)]]
  /\ UNCHANGED <<aborted, abortAsked>>
  /\ UNCHANGED <<cookieVars, syncVars>>

\* The signal of invocation i's request is aborted while the invocation runs.
Abort(i) ==
  /\ inv[i].pc \in {"handling", "responded", "reading"}
  /\ i \notin abortAsked
  /\ aborted' = [aborted EXCEPT ![inv[i].request.signal] = TRUE]
  /\ abortAsked' = abortAsked \cup {i}
  /\ UNCHANGED <<inv, controllers>>
  /\ UNCHANGED <<cookieVars, syncVars>>

\* handleRequest resolves with a response.
HandlerReturn(i, response) ==
  /\ inv[i].pc = "handling"
  /\ inv' = [inv EXCEPT ![i] = [@ EXCEPT !.pc = "responded", !.response = response]]
  /\ UNCHANGED <<aborted, controllers, abortAsked>>
  /\ UNCHANGED <<cookieVars, syncVars>>

\* handleRequest rejects: the invocation fails with the handler's error.
HandlerReject(i) ==
  /\ inv[i].pc = "handling"
  /\ inv' = [inv EXCEPT ![i] = [@ EXCEPT !.pc = "failed"]]
  /\ UNCHANGED <<aborted, controllers, abortAsked>>
  /\ UNCHANGED <<cookieVars, syncVars>>

\* sendRemixResponse up to its await of the body.
SendRemixResponseHead(i) ==
  /\ inv[i].pc = "responded"
  /\ inv' = [inv EXCEPT ![i] =
               [@ EXCEPT !.pc = "reading",
                         !.sawAborted = aborted[inv[i].request.signal],
                         !.head = SendHead(inv[i].response,
                                           aborted[inv[i].request.signal])]]
  /\ UNCHANGED <<aborted, controllers, abortAsked>>
  /\ UNCHANGED <<cookieVars, syncVars>>

\* The body has been read: sendRemixResponse returns the gateway result.
SendRemixResponseBody(i) ==
  /\ inv[i].pc = "reading"
  /\ inv' = [inv EXCEPT ![i] =
               [@ EXCEPT !.pc = "done",
                         !.result = SendResult(inv[i].response, inv[i].head)]]
  /\ UNCHANGED <<aborted, controllers, abortAsked>>
  /\ UNCHANGED <<cookieVars, syncVars>>

\* One invocation, any event and any response.
NextAdapter ==
  \/ \E event \in Events : Invoke(1, event)
  \/ Abort(1)
  \/ \E response \in Responses : HandlerReturn(1, response)
  \/ HandlerReject(1)
  \/ SendRemixResponseHead(1)
  \/ SendRemixResponseBody(1)

\* Several invocations in flight.
NextConcurrent ==
  \/ \E i \in Invocations, event \in FewEvents : Invoke(i, event)
  \/ \E i \in Invocations : Abort(i)
  \/ \E i \in Invocations, response \in FewResponses : HandlerReturn(i, response)
  \/ \E i \in Invocations : HandlerReject(i)
  \/ \E i \in Invocations : SendRemixResponseHead(i)
  \/ \E i \in Invocations : SendRemixResponseBody(i)

(***************************************************************************)
(* Discussion sync: operations                                             *)
(***************************************************************************)

\* The number of discussions on GitHub: those fetched and those created.
DiscussionsMade ==
  Len(existingDiscussions)
    + Cardinality({k \in 1..Len(mutations) : mutations[k].kind = "create"})

\* findMatchingEntries delivers an entry and the callback runs on it.
ProcessEntry(entry) ==
  /\ Len(lastEntry.seen) < MaxEntries
  /\ LET did == SyncEntry(entry, existingDiscussions, DiscussionsMade)
     IN /\ mutations' = mutations \o did.issued
        /\ files' = IF did.wrote.present
                    THEN [q \in DOMAIN files \cup {did.wrote.path} |->
                            IF q = did.wrote.path THEN did.wrote.discussionUrl ELSE files[q]]
                    ELSE files
        /\ lastEntry' = [ran |-> TRUE, entry |-> entry, issued |-> did.issued,
                         wrote |-> did.wrote,
                         seen |-> Append(lastEntry.seen, PathString(entry.path))]
  /\ UNCHANGED existingDiscussions
  /\ UNCHANGED <<cookieVars, adapterVars>>

NextSync == \E entry \in Entries : ProcessEntry(entry)

(***************************************************************************)
(* Specifications                                                          *)
(***************************************************************************)

Next == NextCookie \/ NextConcurrent \/ NextSync

Spec == Init /\ [][Next]_vars

\* The cookie codec alone.
SpecCookie == InitCookie /\ [][NextCookie]_vars

\* One invocation of the adapter, with any event and any response.
SpecAdapter == InitAdapter /\ [][NextAdapter]_vars

\* Several invocations of the adapter in flight.
SpecConcurrent == InitAdapter /\ [][NextConcurrent]_vars

\* The discussion sync alone.
SpecSync == InitSync /\ [][NextSync]_vars
(***************************************************************************)
(* Cookie codec: properties                                                *)
(***************************************************************************)

\* The value of the handle's cookie in a header, as parse hands it to
\* decodeCookieValue.
RawValue(h) == CookieOf(parse(h.s), cookie.name)

\* Whether a header names the handle's cookie.
Names(h) == h.present /\ h.s # <<>> /\ HasCookie(parse(h.s), cookie.name)

\* Whether a cookie value fails base64 or JSON decoding on this runtime.
Undecodable(val) ==
  \/ ~atob(runtime, val).ok
  \/ JsonParse(atob(runtime, val).s).t = "error"

\* C1: secret rotation.  When a handle with secrets parses a header whose
\* value was signed, the result is the value that was serialized if the
\* signing secret is anywhere in the handle's list, and null if it is not.
C1_SecretRotation ==
  (cookieOp = "parseSerialized" /\ header.signCalls # <<>> /\ cookie.secrets # <<>>) =>
    IF header.signCalls[1] \in Range(cookie.secrets)
    THEN parsed = hdrValue
    ELSE parsed = JNull

\* C2: round trip.  serialize(v) produces a header for every value v, and
\* the same handle's parse of that header returns v.
C2_RoundTrip ==
  /\ cookieOp = "serialize" => header.ok
  /\ (cookieOp = "parseSerialized" /\ hdrSecrets = cookie.secrets) => parsed = hdrValue

\* C3: new signatures use the newest secret only.  serialize of a value
\* other than "" calls sign exactly once, with the first secret, when the
\* handle has secrets, and never when it has none.
C3_SignsWithFirstSecret ==
  (cookieOp = "serialize" /\ hdrValue # JStr(<<>>)) =>
    header.signCalls = IF cookie.secrets = <<>> THEN <<>> ELSE <<cookie.secrets[1]>>

\* Whether btoa encodes the value's JSON text faithfully on every runtime.
InLatin1(value) == \A k \in 1..Len(value.s) : value.s[k] < 256

\* What C1, C2 and C3 say, for the values whose text is within Latin-1:
\* there the codec does all three.
CodecOnLatin1Values ==
  InLatin1(hdrValue) => C1_SecretRotation /\ C2_RoundTrip /\ C3_SignsWithFirstSecret

\* C7: parse never raises.  It returns null when the header is absent or
\* does not name the cookie, and, for a handle without secrets, {} when the
\* cookie's value cannot be base64/JSON-decoded.
C7_ParseNeverRaises ==
  cookieOp \in {"parseSerialized", "parseRequest"} =>
    /\ parsed.t # "error"
    /\ ~Names(parseInput) => parsed = JNull
    /\ ( /\ Names(parseInput)
         /\ cookie.secrets = <<>>
         /\ RawValue(parseInput) # <<>>
         /\ Undecodable(RawValue(parseInput)) ) => parsed = JEmptyObject

\* C7's case: a handle without secrets has parsed a header whose value for
\* the cookie does not decode.
C7_Witness ==
  /\ cookieOp = "parseRequest"
  /\ cookie.secrets = <<>>
  /\ Names(parseInput)
  /\ RawValue(parseInput) # <<>>
  /\ Undecodable(RawValue(parseInput))
  /\ parsed = JEmptyObject

(***************************************************************************)
(* Gateway adapter: properties                                             *)
(***************************************************************************)

\* The values the handler appended under a header name, in order.
Appended(response, lower) ==
  LET hits == SelectSeq(response.appended, LAMBDA pr : ToLower(pr.name) = lower)
  IN [k \in 1..Len(hits) |-> hits[k].value]

Done(i) == inv[i].pc = "done"

Started(i) == inv[i].pc # "idle"

\* C4: Set-Cookie extraction.  The result's cookies are exactly the
\* Set-Cookie values the handler put on the response (whatever the case of
\* the header name), and the result's headers hold no Set-Cookie entry.
C4_SetCookieExtraction ==
  \A i \in Invocations : Done(i) =>
    /\ inv[i].result.cookies = Appended(inv[i].response, "set-cookie")
    /\ "set-cookie" \notin DOMAIN inv[i].result.headers

\* C4's case: a response with two Set-Cookie values has been converted.
C4_Witness ==
  /\ Done(1)
  /\ Len(Appended(inv[1].response, "set-cookie")) = 2
  /\ inv[1].result.cookies = <<"a=1", "b=2">>

\* C5: response body encoding.  For a Content-Type in the binary table the
\* result is flagged base64 and its body is the base64 of the response's
\* bytes (and decodes to them); for any other, or none, the result is not
\* flagged and its body is the response's decoded text.
C5_BodyEncoding ==
  \A i \in Invocations : Done(i) =>
    LET types == Appended(inv[i].response, "content-type")
        binary == types # <<>> /\ JoinStr(types, ", ") \in BinaryTypes
        bytes == inv[i].response.bytes
    IN IF binary
       THEN /\ inv[i].result.isBase64Encoded
            /\ inv[i].result.body = Base64Encode(bytes)
            /\ BufferFromBase64(inv[i].result.body) = bytes
       ELSE /\ ~inv[i].result.isBase64Encoded
            /\ inv[i].result.body = Utf8Decode(bytes)

\* C5's case: a binary response whose bytes are not text has been converted.
C5_Witness ==
  /\ Done(1)
  /\ Appended(inv[1].response, "content-type") = <<"image/png">>
  /\ inv[1].response.bytes = <<255, 0, 65>>
  /\ inv[1].result.isBase64Encoded
  /\ inv[1].result.body = <<47, 119, 66, 66>>

\* C6: request body decoding.  For an event with a body and
\* isBase64Encoded the request's body is the text of the bytes the body
\* encodes; for any other event the request's body is the event's body.
C6_RequestBodyDecoding ==
  \A i \in Invocations : Started(i) =>
    IF TruthyText(inv[i].event.body) /\ inv[i].event.isBase64Encoded
    THEN inv[i].request.body = Present(Utf8Decode(inv[i].event.payload))
    ELSE inv[i].request.body = inv[i].event.body

\* C6's case: a base64 body holding C3 A9 reached the handler as U+00E9.
C6_Witness ==
  /\ inv[1].pc = "handling"
  /\ inv[1].event.isBase64Encoded
  /\ inv[1].event.payload = <<195, 169>>
  /\ inv[1].request.body = Present(<<233>>)

\* C8: abort marks the connection closed.  If the invocation's signal is
\* aborted when sendRemixResponse converts the response, the result's
\* Connection header is "close", whatever the handler set; if it is not,
\* the result's Connection header is the handler's, or absent as the
\* handler left it.
C8_AbortClosesConnection ==
  \A i \in Invocations : Done(i) =>
    LET set == Appended(inv[i].response, "connection")
        headers == inv[i].result.headers
    IN IF inv[i].sawAborted
       THEN "connection" \in DOMAIN headers /\ headers["connection"] = "close"
       ELSE IF set = <<>> THEN "connection" \notin DOMAIN headers
       ELSE "connection" \in DOMAIN headers /\ headers["connection"] = JoinStr(set, ", ")

\* C8's case: the handler set Connection: keep-alive, the signal was
\* aborted, and the result says close.
C8_Witness ==
  /\ Done(1)
  /\ inv[1].sawAborted
  /\ Appended(inv[1].response, "connection") = <<"keep-alive">>
  /\ inv[1].result.headers["connection"] = "close"

\* C9: invocations are independent.  Two invocations never hold the same
\* abort controller, each request's signal is the controller its own
\* invocation made, a signal is aborted only if its own invocation's abort
\* was asked for, and the result of an invocation whose abort was never
\* asked for is the conversion of its own response with no Connection mark.
C9_InvocationsIndependent ==
  /\ \A i, j \in Invocations :
       (i # j /\ Started(i) /\ Started(j)) => inv[i].request.signal # inv[j].request.signal
  /\ \A i \in Invocations : Started(i) =>
       /\ inv[i].request.signal \in 1..controllers
       /\ aborted[inv[i].request.signal] => i \in abortAsked
       /\ inv[i].sawAborted => i \in abortAsked
  /\ \A i \in Invocations : (Done(i) /\ i \notin abortAsked) =>
       /\ inv[i].result = SendResult(inv[i].response, SendHead(inv[i].response, FALSE))
       /\ inv[i].result.statusCode = inv[i].response.status

\* C9's case: two invocations ran side by side, the first was aborted and
\* says close, the second was not and says what its handler said.
C9_Witness ==
  /\ Done(1) /\ Done(2)
  /\ abortAsked = {1}
  /\ inv[1].result.headers["connection"] = "close"
  /\ inv[2].response.status = 404
  /\ inv[2].result.headers["connection"] = "keep-alive"

(***************************************************************************)
(* Discussion sync: properties                                             *)
(***************************************************************************)

Issued(kind) == {k \in 1..Len(lastEntry.issued) : lastEntry.issued[k].kind = kind}

\* C10: the sync decision for one entry.  An entry not ending in .md causes
\* no mutation and no write.  For a .md entry whose discussionUrl is an
\* existing discussion's url, nothing is created or written, and an update
\* is issued only if that discussion's title differs from the entry's
\* title (the front-matter title, else the path without /docs).  For a .md
\* entry with no such discussion, exactly one discussion is created and its
\* url is written to the file as discussionUrl.
C10_SyncDecision ==
  lastEntry.ran =>
    LET entry == lastEntry.entry
        i == FindDiscussion(existingDiscussions, entry.data)
    IN IF ~EndsWithMd(entry.path)
       THEN lastEntry.issued = <<>> /\ ~lastEntry.wrote.present
       ELSE IF i # 0
       THEN /\ Issued("create") = {}
            /\ ~lastEntry.wrote.present
            /\ Issued("update") # {} => existingDiscussions[i].title # EntryTitle(entry)
       ELSE /\ Len(lastEntry.issued) = 1
            /\ lastEntry.issued[1].kind = "create"
            /\ lastEntry.wrote.present
            /\ lastEntry.wrote.path = PathString(entry.path)
            /\ lastEntry.wrote.discussionUrl = lastEntry.issued[1].url

====
